---- MODULE Spec2Model ----
(***************************************************************************)
(* A model of wagtail_review/models.py: the five persisted entities        *)
(* (Review, Reviewer, Annotation, AnnotationRange, Response), the Reviewer *)
(* instance life cycle (construct / load, clean, save), the two tokenised  *)
(* URLs, the two notification senders and the reporting query              *)
(* get_pages_with_reviews_for_user.                                        *)
(*                                                                         *)
(* The database is a set of tables, each a function from primary keys to   *)
(* rows.  Primary keys are auto-increment: a key is never handed out twice.*)
(* `inst` is the Reviewer object a request handler holds in memory; `ret`  *)
(* is the outcome of the last operation (its name, the exception it        *)
(* raised, the mails it handed to the mail transport, the value returned). *)
(***************************************************************************)
EXTENDS Integers, Sequences, FiniteSets, TLC

VARIABLES reviews, reviewers, annotations, ranges, responses, seq, now, inst, ret

vars == <<reviews, reviewers, annotations, ranges, responses, seq, now, inst, ret>>

----------------------------------------------------------------------------
(* Bounds of the model *)

MaxReviews == 3
MaxReviewers == 2
MaxAnnotations == 1
MaxRanges == 1
MaxResponses == 1
MaxClock == 2

----------------------------------------------------------------------------
(* The host CMS: users, their e-mail addresses, pages, revisions, permissions *)

None == "None"

Users == {"ann", "bob"}

\* settings.AUTH_USER_MODEL.email: ann has an address on file, bob has none
UserEmail(u) == IF u = "ann" THEN "ann@cms" ELSE ""

\* Reviewer.email is an EmailField(blank=True): empty, or an external address
Emails == {"", "ext@mail"}

Pages == {"p1", "p2"}

Revisions == {"rev1", "rev2", "rev3"}

\* Revision.object_id: the page a revision is a snapshot of
RevisionPage(rev) == IF rev = "rev3" THEN "p2" ELSE "p1"

\* the pages the host's permission policy lets a user change
EditablePages(user) == IF user = "ann" THEN {"p1", "p2"} ELSE {"p2"}

\* the values generate_token can return (non-empty strings)
Tokens == {"tokA", "tokB"}

BaseUrl == "https://cms"

----------------------------------------------------------------------------
(* Helpers *)

Remove(table, ids) == [i \in (DOMAIN table) \ ids |-> table[i]]

Range(s) == {s[i] : i \in DOMAIN s}

NoDuplicates(s) == \A i, j \in DOMAIN s : i # j => s[i] # s[j]

\* every ordering of a finite set, as sequences without repetition
Orderings(S) == {s \in [1..Cardinality(S) -> S] : Range(s) = S}

NoInst == [pk |-> -1, review |-> 0, user |-> None, email |-> "",
           response_token |-> "", view_token |-> ""]

Outcome(op, target, exc) ==
    [op |-> op, target |-> target, exc |-> exc, gen |-> 0,
     order |-> <<>>, attempted |-> <<>>, mails |-> <<>>, value |-> <<>>]

----------------------------------------------------------------------------
(* Initial state: empty tables, no instance in memory *)

Init ==
    /\ reviews = << >>
    /\ reviewers = << >>
    /\ annotations = << >>
    /\ ranges = << >>
    /\ responses = << >>
    /\ seq = [review |-> 0, reviewer |-> 0, annotation |-> 0, range |-> 0, response |-> 0]
    /\ now = 1
    /\ inst = NoInst
    /\ ret = Outcome("init", 0, "")

\* the wall clock advances; auto_now_add reads it
Tick ==
    /\ now < MaxClock
    /\ now' = now + 1
    /\ ret' = Outcome("tick", 0, "")
    /\ UNCHANGED <<reviews, reviewers, annotations, ranges, responses, seq, inst>>

----------------------------------------------------------------------------
(* Review *)

\* a new review that starts closed
DefaultStatus_Closed == "closed"

\* the value of BaseReview.status on a new row
DefaultStatus == "open"

\* Review.objects.create(page_revision=rev, submitter=u)
CreateReview(rev, u) ==
    /\ seq.review < MaxReviews
    /\ LET id == seq.review + 1 IN
         /\ reviews' = reviews @@ (id :> [page_revision |-> rev, status |-> DefaultStatus,
                                          submitter |-> u, created_at |-> now])
         /\ seq' = [seq EXCEPT !.review = id]
         /\ ret' = Outcome("create_review", id, "")
    /\ UNCHANGED <<reviewers, annotations, ranges, responses, now, inst>>

\* the workflow step that closes a review (open -> closed)
CloseReview(rv) ==
    /\ rv \in DOMAIN reviews
    /\ reviews[rv].status = "open"
    /\ reviews' = [reviews EXCEPT ![rv].status = "closed"]
    /\ ret' = Outcome("close_review", rv, "")
    /\ UNCHANGED <<reviewers, annotations, ranges, responses, seq, now, inst>>

\* a foreign key that does not cascade
ReviewersOf_NoCascade(rvs) == {}

\* on_delete=CASCADE: the rows that go with their parents
ReviewersOf(rvs) == {r \in DOMAIN reviewers : reviewers[r].review \in rvs}

AnnotationsOf(rs) == {a \in DOMAIN annotations : annotations[a].reviewer \in rs}

RangesOf(as) == {g \in DOMAIN ranges : ranges[g].annotation \in as}

ResponsesOf(rs) == {p \in DOMAIN responses : responses[p].reviewer \in rs}

\* review.delete()
DeleteReview(rv) ==
    /\ rv \in DOMAIN reviews
    /\ LET rs == ReviewersOf({rv})
           as == AnnotationsOf(rs)
       IN /\ reviews' = Remove(reviews, {rv})
          /\ reviewers' = Remove(reviewers, rs)
          /\ annotations' = Remove(annotations, as)
          /\ ranges' = Remove(ranges, RangesOf(as))
          /\ responses' = Remove(responses, ResponsesOf(rs))
    /\ ret' = Outcome("delete_review", rv, "")
    /\ UNCHANGED <<seq, now, inst>>

----------------------------------------------------------------------------
(* Reviewer *)

Unsaved(rv, u, e) == [pk |-> 0, review |-> rv, user |-> u, email |-> e,
                      response_token |-> "", view_token |-> ""]

\* Reviewer(review=rv, user=u, email=e): an unsaved instance, tokens blank
ReviewerInit(rv, u, e) ==
    /\ rv \in DOMAIN reviews
    /\ inst' = Unsaved(rv, u, e)
    /\ ret' = Outcome("reviewer_init", 0, "")
    /\ UNCHANGED <<reviews, reviewers, annotations, ranges, responses, seq, now>>

\* the instance a query builds from row r
Loaded(r) == [pk |-> r, review |-> reviewers[r].review, user |-> reviewers[r].user,
              email |-> reviewers[r].email,
              response_token |-> reviewers[r].response_token,
              view_token |-> reviewers[r].view_token]

\* Reviewer.objects.get(pk=r)
ReviewerGet(r) ==
    /\ r \in DOMAIN reviewers
    /\ inst' = Loaded(r)
    /\ ret' = Outcome("reviewer_get", r, "")
    /\ UNCHANGED <<reviews, reviewers, annotations, ranges, responses, seq, now>>

\* a clean that forgets the user
CleanFails_EmailOnly(i) == i.email = ""

\* the condition under which Reviewer.clean raises
CleanFails(i) == i.user = None /\ i.email = ""

\* Reviewer.clean()
ReviewerClean ==
    /\ inst # NoInst
    /\ ret' = Outcome("clean", inst.pk, IF CleanFails(inst) THEN "ValidationError" ELSE "")
    /\ UNCHANGED <<reviews, reviewers, annotations, ranges, responses, seq, now, inst>>

\* a save that mints a token every time
TokenAfterSave_Regenerate(current, fresh) == fresh

\* the token fields after the two guarded assignments of Reviewer.save
TokenAfterSave(current, fresh) == IF current = "" THEN fresh ELSE current

\* the number of generate_token calls Reviewer.save makes
GenerateCalls(i) ==
    (IF i.response_token = "" THEN 1 ELSE 0) + (IF i.view_token = "" THEN 1 ELSE 0)

Row(i) == [review |-> i.review, user |-> i.user, email |-> i.email,
           response_token |-> i.response_token, view_token |-> i.view_token]

\* the instance after the two guarded assignments of Reviewer.save, t1 and
\* t2 being what generate_token returns when called
Minted(i, t1, t2) ==
    [i EXCEPT !.response_token = TokenAfterSave(i.response_token, t1),
              !.view_token = TokenAfterSave(i.view_token, t2)]

\* Model.save (no validation): UPDATE the row of the instance's pk, INSERT
\* when there is none (a new pk for an instance that has none)
Stored(i, id) ==
    [k \in (DOMAIN reviewers) \cup {id} |-> IF k = id THEN Row(i) ELSE reviewers[k]]

\* Reviewer.save() on the instance in memory; the foreign key to Review
\* rejects a row whose review is gone
ReviewerSave(t1, t2) ==
    /\ inst # NoInst
    /\ inst.pk = 0 /\ inst.review \in DOMAIN reviews => seq.reviewer < MaxReviewers
    /\ LET minted == Minted(inst, t1, t2)
           id == IF inst.pk = 0 THEN seq.reviewer + 1 ELSE inst.pk
       IN IF inst.review \notin DOMAIN reviews
          THEN /\ inst' = minted
               /\ ret' = [Outcome("save", inst.pk, "IntegrityError")
                             EXCEPT !.gen = GenerateCalls(inst)]
               /\ UNCHANGED <<reviewers, seq>>
          ELSE /\ inst' = [minted EXCEPT !.pk = id]
               /\ reviewers' = Stored(minted, id)
               /\ seq' = IF inst.pk = 0 THEN [seq EXCEPT !.reviewer = id] ELSE seq
               /\ ret' = [Outcome("save", id, "") EXCEPT !.gen = GenerateCalls(inst)]
    /\ UNCHANGED <<reviews, annotations, ranges, responses, now>>

\* Reviewer.objects.create(review=rv, user=u, email=e): construct and save
\* an instance the caller does not keep
ReviewerCreate(rv, u, e, t1, t2) ==
    /\ rv \in DOMAIN reviews
    /\ seq.reviewer < MaxReviewers
    /\ LET id == seq.reviewer + 1 IN
         /\ reviewers' = Stored(Minted(Unsaved(rv, u, e), t1, t2), id)
         /\ seq' = [seq EXCEPT !.reviewer = id]
         /\ ret' = [Outcome("create", id, "") EXCEPT !.gen = GenerateCalls(Unsaved(rv, u, e))]
    /\ UNCHANGED <<reviews, annotations, ranges, responses, now, inst>>

\* a respond URL built from the other token
get_respond_url_ViewToken(i) == <<BaseUrl, "respond", i.pk, i.view_token>>

\* reverse('wagtail_review:respond', args=[id, response_token]), absolute
get_respond_url(i) == <<BaseUrl, "respond", i.pk, i.response_token>>

\* reverse('wagtail_review:view', args=[id, view_token]), absolute
get_view_url(i) == <<BaseUrl, "view", i.pk, i.view_token>>

\* self.email or self.user.email; reading .email of no user raises
HasNoAddress(row) == row.email = "" /\ row.user = None

get_email_address(row) == IF row.email # "" THEN row.email ELSE UserEmail(row.user)

----------------------------------------------------------------------------
(* Annotation, AnnotationRange, Response *)

CreateAnnotation(r) ==
    /\ r \in DOMAIN reviewers
    /\ seq.annotation < MaxAnnotations
    /\ LET id == seq.annotation + 1 IN
         /\ annotations' = annotations @@ (id :> [reviewer |-> r])
         /\ seq' = [seq EXCEPT !.annotation = id]
         /\ ret' = Outcome("create_annotation", id, "")
    /\ UNCHANGED <<reviews, reviewers, ranges, responses, now, inst>>

CreateAnnotationRange(a) ==
    /\ a \in DOMAIN annotations
    /\ seq.range < MaxRanges
    /\ LET id == seq.range + 1 IN
         /\ ranges' = ranges @@ (id :> [annotation |-> a])
         /\ seq' = [seq EXCEPT !.range = id]
         /\ ret' = Outcome("create_range", id, "")
    /\ UNCHANGED <<reviews, reviewers, annotations, responses, now, inst>>

Results == {"approve", "comment"}

CreateResponse(r, result) ==
    /\ r \in DOMAIN reviewers
    /\ seq.response < MaxResponses
    /\ LET id == seq.response + 1 IN
         /\ responses' = responses @@ (id :> [reviewer |-> r, result |-> result])
         /\ seq' = [seq EXCEPT !.response = id]
         /\ ret' = Outcome("create_response", id, "")
    /\ UNCHANGED <<reviews, reviewers, annotations, ranges, now, inst>>

----------------------------------------------------------------------------
(* Notification dispatch *)

\* an exclusion that also drops the rows with no user
RequestRecipients_DropNull(rv) ==
    {r \in DOMAIN reviewers : reviewers[r].review = rv
                              /\ reviewers[r].user # None
                              /\ reviewers[r].user # reviews[rv].submitter}

\* self.reviewers.exclude(user=self.submitter): rows with no user stay in
RequestRecipients(rv) ==
    {r \in DOMAIN reviewers : reviewers[r].review = rv
                              /\ reviewers[r].user # reviews[rv].submitter}

\* the message Reviewer.send_request_email hands to send_mail
RequestMail(r) ==
    [kind |-> "request", to |-> get_email_address(reviewers[r]), reviewer |-> r,
     respond_url |-> get_respond_url(Loaded(r)), view_url |-> get_view_url(Loaded(r))]

\* a loop that goes on after an exception
Attempted_KeepGoing(order, f) == order

\* the reviewers whose send_request_email ran when the f-th one raised
\* (f = Len(order) + 1: none raised): the loop has no try/except
Attempted(order, f) == SubSeq(order, 1, IF f > Len(order) THEN Len(order) ELSE f)

\* how the send for the f-th reviewer ended
SendOutcome(order, f) ==
    IF f > Len(order) THEN ""
    ELSE IF HasNoAddress(reviewers[order[f]]) THEN "AttributeError"
    ELSE "SMTPException"

\* the send_mail calls made: one per attempted reviewer that has an address
MailsHanded(attempted) ==
    LET n == Cardinality({i \in DOMAIN attempted : ~HasNoAddress(reviewers[attempted[i]])})
    IN [i \in 1..n |-> RequestMail(attempted[i])]

\* Review.send_request_emails(): iterate the recipients in the order the
\* database returns them; the first exception ends the call
SendRequestEmails(rv) ==
    /\ rv \in DOMAIN reviews
    /\ \E order \in Orderings(RequestRecipients(rv)) :
         \E f \in 1..(Len(order) + 1) :
            /\ \A i \in 1..(f - 1) : ~HasNoAddress(reviewers[order[i]])
            /\ ret' = [Outcome("send_request_emails", rv, SendOutcome(order, f))
                          EXCEPT !.order = order,
                                 !.attempted = Attempted(order, f),
                                 !.mails = MailsHanded(Attempted(order, f))]
    /\ UNCHANGED <<reviews, reviewers, annotations, ranges, responses, seq, now, inst>>

\* a notification sent whether or not there is an address
ShouldNotify_Always(submitter) == TRUE

\* the condition of Response.send_notification_to_submitter
ShouldNotify(submitter) == UserEmail(submitter) # ""

\* the message Response.send_notification_to_submitter hands to send_mail
NotificationMail(p, submitter) ==
    [kind |-> "response_received", to |-> UserEmail(submitter),
     reviewer |-> responses[p].reviewer, respond_url |-> <<>>, view_url |-> <<>>]

\* Response.send_notification_to_submitter()
SendNotificationToSubmitter(p) ==
    /\ p \in DOMAIN responses
    /\ LET submitter == reviews[reviewers[responses[p].reviewer].review].submitter IN
         IF ShouldNotify(submitter)
         THEN \E exc \in {"", "SMTPException"} :
                 ret' = [Outcome("send_notification", p, exc)
                             EXCEPT !.mails = <<NotificationMail(p, submitter)>>]
         ELSE ret' = Outcome("send_notification", p, "")
    /\ UNCHANGED <<reviews, reviewers, annotations, ranges, responses, seq, now, inst>>

\* the messages the transport accepted: all but a last one that raised
Delivered(r) ==
    IF r.exc = "SMTPException" THEN SubSeq(r.mails, 1, Len(r.mails) - 1) ELSE r.mails

----------------------------------------------------------------------------
(* Review.get_pages_with_reviews_for_user *)

\* the oldest instead of the latest
SetMax_Min(S) == CHOOSE x \in S : \A y \in S : x <= y

\* Max("created_at")
SetMax(S) == CHOOSE x \in S : \A y \in S : y <= x

\* cls.objects.values_list("page_revision__object_id", flat=True).distinct()
reviewed_page_ids == {RevisionPage(reviews[r].page_revision) : r \in DOMAIN reviews}

\* .values(page).annotate(last_review_requested_at=Max("created_at"))
latest_reviews_map ==
    [pg \in reviewed_page_ids |->
        SetMax({reviews[r].created_at :
                  r \in {x \in DOMAIN reviews : RevisionPage(reviews[x].page_revision) = pg}})]

\* a query that forgets the permission filter
pages_with_reviews_AllReviewed(user) == reviewed_page_ids

\* editable_pages.filter(pk__in=reviewed_page_ids)
pages_with_reviews(user) == EditablePages(user) \cap reviewed_page_ids

\* .order_by("-last_review_requested_at"): ties in any order
OrderedDescending(s) ==
    \A i, j \in DOMAIN s : i < j =>
        s[i].last_review_requested_at >= s[j].last_review_requested_at

GetPagesWithReviewsForUser(user) ==
    /\ \E order \in Orderings(pages_with_reviews(user)) :
         LET result == [i \in DOMAIN order |->
                          [page |-> order[i],
                           last_review_requested_at |-> latest_reviews_map[order[i]]]]
         IN /\ OrderedDescending(result)
            /\ ret' = [Outcome("get_pages", user, "") EXCEPT !.value = result]
    /\ UNCHANGED <<reviews, reviewers, annotations, ranges, responses, seq, now, inst>>

----------------------------------------------------------------------------------------------------------------------------------------
(* Specifications.  Spec is the whole program.  The other specifications   *)
(* are the same actions with the inputs each group of properties needs.    *)

AnyUser == Users \cup {None}

Next ==
    \/ Tick
    \/ \E rev \in Revisions, u \in Users : CreateReview(rev, u)
    \/ \E rv \in DOMAIN reviews : CloseReview(rv)
    \/ \E rv \in DOMAIN reviews : DeleteReview(rv)
    \/ \E rv \in DOMAIN reviews, u \in AnyUser, e \in Emails : ReviewerInit(rv, u, e)
    \/ \E r \in DOMAIN reviewers : ReviewerGet(r)
    \/ ReviewerClean
    \/ \E t1, t2 \in Tokens : ReviewerSave(t1, t2)
    \/ \E rv \in DOMAIN reviews, u \in AnyUser, e \in Emails, t1, t2 \in Tokens :
          ReviewerCreate(rv, u, e, t1, t2)
    \/ \E r \in DOMAIN reviewers : CreateAnnotation(r)
    \/ \E a \in DOMAIN annotations : CreateAnnotationRange(a)
    \/ \E r \in DOMAIN reviewers, res \in Results : CreateResponse(r, res)
    \/ \E rv \in DOMAIN reviews : SendRequestEmails(rv)
    \/ \E p \in DOMAIN responses : SendNotificationToSubmitter(p)
    \/ \E u \in Users : GetPagesWithReviewsForUser(u)

Spec == Init /\ [][Next]_vars

\* validation and persistence of reviewers: user and email each set or unset
NextReviewer ==
    \/ CreateReview("rev1", "ann")
    \/ \E rv \in DOMAIN reviews : DeleteReview(rv)
    \/ \E rv \in DOMAIN reviews, u \in {None, "bob"}, e \in Emails : ReviewerInit(rv, u, e)
    \/ ReviewerClean
    \/ ReviewerSave("tokA", "tokB")

SpecReviewer == Init /\ [][NextReviewer]_vars

\* tokens and tokenised URLs: every outcome of generate_token
NextTokens ==
    \/ CreateReview("rev1", "ann")
    \/ \E rv \in DOMAIN reviews : ReviewerInit(rv, None, "ext@mail")
    \/ \E r \in DOMAIN reviewers : ReviewerGet(r)
    \/ \E t1, t2 \in Tokens : ReviewerSave(t1, t2)
    \/ \E rv \in DOMAIN reviews : SendRequestEmails(rv)

SpecTokens == Init /\ [][NextTokens]_vars

\* review requests: every submitter, every kind of reviewer
NextRequest ==
    \/ \E u \in Users : CreateReview("rev1", u)
    \/ \E rv \in DOMAIN reviews, u \in AnyUser : ReviewerCreate(rv, u, "", "tokA", "tokB")
    \/ \E rv \in DOMAIN reviews, u \in {None, "bob"} :
          ReviewerCreate(rv, u, "ext@mail", "tokA", "tokB")
    \/ \E rv \in DOMAIN reviews : SendRequestEmails(rv)

SpecRequest == Init /\ [][NextRequest]_vars

\* responses: submitters with and without an address, internal and external reviewers
NextResponse ==
    \/ \E u \in Users : CreateReview("rev1", u)
    \/ \E rv \in DOMAIN reviews : ReviewerCreate(rv, "ann", "", "tokA", "tokB")
    \/ \E rv \in DOMAIN reviews : ReviewerCreate(rv, None, "ext@mail", "tokA", "tokB")
    \/ \E r \in DOMAIN reviewers : CreateResponse(r, "approve")
    \/ \E p \in DOMAIN responses : SendNotificationToSubmitter(p)

SpecResponse == Init /\ [][NextResponse]_vars

\* reviews: status and the reporting query, every revision, reviews at different times
NextQuery ==
    \/ Tick
    \/ \E rev \in Revisions : CreateReview(rev, "ann")
    \/ \E rv \in DOMAIN reviews : CloseReview(rv)
    \/ \E rv \in DOMAIN reviews : DeleteReview(rv)
    \/ \E u \in Users : GetPagesWithReviewsForUser(u)

SpecQuery == Init /\ [][NextQuery]_vars

\* ownership: the whole tree of rows under a review
NextOwnership ==
    \/ CreateReview("rev1", "ann")
    \/ \E rv \in DOMAIN reviews : DeleteReview(rv)
    \/ \E rv \in DOMAIN reviews : ReviewerCreate(rv, "bob", "", "tokA", "tokB")
    \/ \E r \in DOMAIN reviewers : CreateAnnotation(r)
    \/ \E a \in DOMAIN annotations : CreateAnnotationRange(a)
    \/ \E r \in DOMAIN reviewers : CreateResponse(r, "comment")

SpecOwnership == Init /\ [][NextOwnership]_vars

----------------------------------------------------------------------------
(* Properties *)

ReviewOf(r) == reviewers[r].review

MailedReviewers(mails) == {mails[i].reviewer : i \in DOMAIN mails}

\* C1, as stated: no stored Reviewer has user = None and an empty email,
\* whatever sequence of create / save operations ran.
C1_NoStoredReviewerWithoutUserAndEmail ==
    \A r \in DOMAIN reviewers : ~(reviewers[r].user = None /\ reviewers[r].email = "")

\* C1, amended: Reviewer.clean raises the validation error exactly when user
\* is None and email is empty, and changes no stored row; a Reviewer saved
\* right after a clean that passed is stored with a user or an email.
C1_ValidatedReviewerHasUserOrEmail ==
    [][ /\ ret'.op = "clean" =>
              /\ (ret'.exc = "ValidationError") <=> (inst.user = None /\ inst.email = "")
              /\ ret'.exc \in {"", "ValidationError"}
              /\ reviewers' = reviewers
        /\ (ret.op = "clean" /\ ret.exc = "" /\ ret'.op = "save" /\ ret'.exc = "") =>
              /\ ret'.target \in DOMAIN reviewers'
              /\ reviewers'[ret'.target].user # None \/ reviewers'[ret'.target].email # ""
      ]_vars

\* clean has rejected an unsaved reviewer that has neither user nor email
C1_Witness ==
    /\ ret.op = "clean" /\ ret.exc = "ValidationError"
    /\ inst.pk = 0 /\ inst.user = None /\ inst.email = ""

\* C2: a reviewer's response_token and view_token are minted by its first
\* save (two generate_token calls, two non-empty tokens) and no later step
\* changes them; a save of an instance of a stored record calls
\* generate_token zero times.
C2_TokensMintedOnceThenStable ==
    [][ /\ \A r \in (DOMAIN reviewers) \cap (DOMAIN reviewers') :
              /\ reviewers'[r].response_token = reviewers[r].response_token
              /\ reviewers'[r].view_token = reviewers[r].view_token
        /\ (ret'.op = "save" /\ inst.pk > 0) => ret'.gen = 0
        /\ (ret'.op = "save" /\ inst.pk = 0 /\ ret'.exc = "") =>
              /\ ret'.gen = 2
              /\ ret'.target \notin DOMAIN reviewers
              /\ reviewers'[ret'.target].response_token \in Tokens
              /\ reviewers'[ret'.target].view_token \in Tokens
      ]_vars

\* a stored reviewer has been saved again, with no token generated
C2_Witness ==
    /\ ret.op = "save" /\ ret.exc = "" /\ ret.gen = 0
    /\ ret.target \in DOMAIN reviewers
    /\ inst.response_token = reviewers[ret.target].response_token

\* C3: when every send of Review.send_request_emails succeeds, the reviewers
\* mailed are exactly the review's reviewers whose user is not the submitter
\* (those with no user included), each once, each at its own address, and
\* none of them belongs to another review.
C3_RequestEmailsToAllButSubmitter ==
    (ret.op = "send_request_emails" /\ ret.exc = "") =>
        LET rv == ret.target
            sent == Delivered(ret)
        IN /\ MailedReviewers(sent) =
                 {r \in DOMAIN reviewers :
                     /\ ReviewOf(r) = rv
                     /\ (reviewers[r].user = None
                           \/ reviewers[r].user # reviews[rv].submitter)}
           /\ NoDuplicates([i \in DOMAIN sent |-> sent[i].reviewer])
           /\ \A i \in DOMAIN sent :
                 /\ sent[i].kind = "request"
                 /\ ReviewOf(sent[i].reviewer) = rv
                 /\ sent[i].to = (IF reviewers[sent[i].reviewer].email # ""
                                  THEN reviewers[sent[i].reviewer].email
                                  ELSE UserEmail(reviewers[sent[i].reviewer].user))

\* every send succeeded: an e-mail-only reviewer got the request, the
\* submitter, who is a reviewer too, got none
C3_Witness ==
    /\ ret.op = "send_request_emails" /\ ret.exc = ""
    /\ \E i \in DOMAIN ret.mails : reviewers[ret.mails[i].reviewer].user = None
    /\ \E r \in DOMAIN reviewers :
          /\ ReviewOf(r) = ret.target
          /\ reviewers[r].user = reviews[ret.target].submitter
          /\ r \notin MailedReviewers(ret.mails)

\* C4: Response.send_notification_to_submitter hands exactly one message to
\* the mail transport, addressed to the submitter of the review that owns
\* the response's reviewer, when that submitter has an e-mail address; with
\* an empty address it sends nothing and raises nothing.
C4_NotificationOnlyWithAddress ==
    (ret.op = "send_notification" /\ ret.target \in DOMAIN responses) =>
        LET submitter == reviews[ReviewOf(responses[ret.target].reviewer)].submitter IN
          IF UserEmail(submitter) # ""
          THEN /\ Len(ret.mails) = 1
               /\ ret.mails[1].kind = "response_received"
               /\ ret.mails[1].to = UserEmail(submitter)
               /\ ret.exc \in {"", "SMTPException"}
          ELSE /\ ret.mails = <<>>
               /\ ret.exc = ""

\* a notification went to the submitter for the response of an external reviewer
C4_Witness ==
    /\ ret.op = "send_notification" /\ ret.exc = ""
    /\ Len(ret.mails) = 1
    /\ ret.mails[1].to = "ann@cms"
    /\ reviewers[ret.mails[1].reviewer].email = "ext@mail"

\* C5: get_pages_with_reviews_for_user(user) returns exactly the pages the
\* user may edit that have a review on one of their revisions, each once.
C5_EditablePagesWithReviews ==
    ret.op = "get_pages" =>
        LET returned == [i \in DOMAIN ret.value |-> ret.value[i].page] IN
          /\ Range(returned) =
                {pg \in Pages :
                    /\ pg \in EditablePages(ret.target)
                    /\ \E r \in DOMAIN reviews : RevisionPage(reviews[r].page_revision) = pg}
          /\ NoDuplicates(returned)

\* a page with two reviews is returned once, and the reviewed page the user
\* may not edit is left out
C5_Witness ==
    /\ ret.op = "get_pages" /\ ret.target = "bob"
    /\ Len(ret.value) = 1
    /\ \E r \in DOMAIN reviews : RevisionPage(reviews[r].page_revision) = "p1"
    /\ \E r1, r2 \in DOMAIN reviews :
          /\ r1 # r2
          /\ RevisionPage(reviews[r1].page_revision) = "p2"
          /\ RevisionPage(reviews[r2].page_revision) = "p2"

\* C6: in the result, each page's last_review_requested_at is the greatest
\* created_at among the reviews of the page's revisions, and no page comes
\* after a page whose value is smaller.
C6_LatestReviewDescending ==
    ret.op = "get_pages" =>
        /\ \A i \in DOMAIN ret.value :
              LET of == {r \in DOMAIN reviews :
                            RevisionPage(reviews[r].page_revision) = ret.value[i].page}
              IN /\ \E r \in of : reviews[r].created_at = ret.value[i].last_review_requested_at
                 /\ \A r \in of : reviews[r].created_at <= ret.value[i].last_review_requested_at
        /\ \A i, j \in DOMAIN ret.value :
              i < j => ret.value[i].last_review_requested_at
                          >= ret.value[j].last_review_requested_at

\* two pages returned, the one reviewed last first, its older review not counted
C6_Witness ==
    /\ ret.op = "get_pages"
    /\ Len(ret.value) = 2
    /\ ret.value[1].last_review_requested_at > ret.value[2].last_review_requested_at
    /\ \E r \in DOMAIN reviews :
          /\ RevisionPage(reviews[r].page_revision) = ret.value[1].page
          /\ reviews[r].created_at < ret.value[1].last_review_requested_at

ReferentialIntegrity ==
    /\ \A r \in DOMAIN reviewers : reviewers[r].review \in DOMAIN reviews
    /\ \A a \in DOMAIN annotations : annotations[a].reviewer \in DOMAIN reviewers
    /\ \A p \in DOMAIN responses : responses[p].reviewer \in DOMAIN reviewers
    /\ \A g \in DOMAIN ranges : ranges[g].annotation \in DOMAIN annotations

\* C8: every stored Reviewer refers to a stored Review, every Annotation and
\* Response to a stored Reviewer, every AnnotationRange to a stored
\* Annotation; deleting a review removes its reviewers and their annotations,
\* ranges and responses, and leaves every row of the other reviews as it was.
C8_CascadeKeepsOwnership ==
    [][ /\ ReferentialIntegrity
        /\ ReferentialIntegrity'
        /\ ret'.op = "delete_review" =>
             LET rv == ret'.target
                 mine(r) == reviewers[r].review = rv
             IN /\ rv \in DOMAIN reviews /\ rv \notin DOMAIN reviews'
                /\ \A x \in DOMAIN reviews : x # rv =>
                      x \in DOMAIN reviews' /\ reviews'[x] = reviews[x]
                /\ \A r \in DOMAIN reviewers :
                      IF mine(r) THEN r \notin DOMAIN reviewers'
                      ELSE r \in DOMAIN reviewers' /\ reviewers'[r] = reviewers[r]
                /\ \A a \in DOMAIN annotations :
                      IF mine(annotations[a].reviewer) THEN a \notin DOMAIN annotations'
                      ELSE a \in DOMAIN annotations' /\ annotations'[a] = annotations[a]
                /\ \A p \in DOMAIN responses :
                      IF mine(responses[p].reviewer) THEN p \notin DOMAIN responses'
                      ELSE p \in DOMAIN responses' /\ responses'[p] = responses[p]
                /\ \A g \in DOMAIN ranges :
                      IF mine(annotations[ranges[g].annotation].reviewer)
                      THEN g \notin DOMAIN ranges'
                      ELSE g \in DOMAIN ranges' /\ ranges'[g] = ranges[g]
      ]_vars

\* a review was deleted with its annotation, range and response, and the
\* reviewer of the other review is still there
C8_Witness ==
    /\ ret.op = "delete_review"
    /\ seq.annotation = 1 /\ annotations = << >>
    /\ seq.range = 1 /\ ranges = << >>
    /\ seq.response = 1 /\ responses = << >>
    /\ DOMAIN reviewers # {}

\* C9: when a send fails during Review.send_request_emails, the call ends
\* with that exception, no reviewer was attempted twice, the failing
\* reviewer is the last one attempted, the reviewers after it in the
\* iteration got no e-mail, and no stored row changed.
C9_FailurePropagatesNoRetry ==
    [][ (ret'.op = "send_request_emails" /\ ret'.exc # "") =>
          LET o == ret'.order
              a == ret'.attempted
              n == Len(ret'.attempted)
          IN /\ ret'.exc \in {"AttributeError", "SMTPException"}
             /\ n >= 1 /\ n <= Len(o)
             /\ a = SubSeq(o, 1, n)
             /\ NoDuplicates(o)
             /\ (ret'.exc = "AttributeError") <=>
                   (reviewers[a[n]].user = None /\ reviewers[a[n]].email = "")
             /\ MailedReviewers(Delivered(ret')) = {a[i] : i \in 1..(n - 1)}
             /\ \A i \in (n + 1)..Len(o) : o[i] \notin MailedReviewers(ret'.mails)
             /\ Len(ret'.mails) <= n
             /\ <<reviews, reviewers, annotations, ranges, responses>>' =
                   <<reviews, reviewers, annotations, ranges, responses>>
      ]_vars

\* the send for the first reviewer failed and a reviewer after it got nothing
C9_Witness ==
    /\ ret.op = "send_request_emails" /\ ret.exc # ""
    /\ Len(ret.order) > Len(ret.attempted)

\* C10, as stated: for every saved reviewer the respond URL never carries the
\* reviewer's view_token and the view URL never carries its response_token.
C10_UrlNeverCarriesOtherToken ==
    \A r \in DOMAIN reviewers :
        /\ get_respond_url(Loaded(r))[4] # reviewers[r].view_token
        /\ get_view_url(Loaded(r))[4] # reviewers[r].response_token

\* C10, amended: the request e-mail of a reviewer carries a respond URL made
\* of that reviewer's id and response_token and a view URL made of that
\* reviewer's id and view_token; the respond URL differs from every URL that
\* can be made of the view_token whenever the reviewer's two tokens differ,
\* which the independent draws of generate_token do not guarantee.
C10_UrlsCarryOwnIdAndToken ==
    /\ \A r \in DOMAIN reviewers :
          /\ get_respond_url(Loaded(r)) = <<BaseUrl, "respond", r, reviewers[r].response_token>>
          /\ get_view_url(Loaded(r)) = <<BaseUrl, "view", r, reviewers[r].view_token>>
    /\ ret.op = "send_request_emails" =>
          \A i \in DOMAIN ret.mails :
              LET m == ret.mails[i]
                  row == reviewers[m.reviewer]
              IN /\ m.respond_url = <<BaseUrl, "respond", m.reviewer, row.response_token>>
                 /\ m.view_url = <<BaseUrl, "view", m.reviewer, row.view_token>>
                 /\ row.response_token # row.view_token =>
                       /\ m.respond_url[4] # row.view_token
                       /\ m.view_url[4] # row.response_token

\* a request e-mail went to a reviewer whose two tokens differ, while
\* another reviewer holds other tokens
C10_Witness ==
    /\ ret.op = "send_request_emails"
    /\ \E i \in DOMAIN ret.mails :
          /\ reviewers[ret.mails[i].reviewer].response_token
                # reviewers[ret.mails[i].reviewer].view_token
          /\ \E r \in DOMAIN reviewers :
                reviewers[r].response_token
                   # reviewers[ret.mails[i].reviewer].response_token

====
